---- MODULE Spec2Model ----
(***************************************************************************)
(* Calendar Sync: one-way reconciliation of a Teams ICS feed (source) into *)
(* a Google Calendar (target), as implemented by main() of                 *)
(* calendar_sync.py and its collaborators in src/google_calendar.py and    *)
(* src/teams_functions.py.                                                 *)
(*                                                                         *)
(* Titles are sequences of tokens; the cancellation marker "Cancelado:" is *)
(* the two-token sequence <<"Cancelado", ":">>.  Timestamps are whole      *)
(* hours: a naive datetime is an integer, an aware datetime is a record    *)
(* [utc, off] whose civil reading is utc + off.                            *)
(*                                                                         *)
(* calendar_sync.py imports create_google_event / delete_google_event_by_id*)
(* and reads the keys title/start/end; google_calendar.py defines them as  *)
(* criar_evento_google / remover_evento_google_by_id over titulo/inicio/   *)
(* fim.  The model takes the two spellings to name the same functions and  *)
(* fields.                                                                 *)
(***************************************************************************)
EXTENDS Integers, Sequences, FiniteSets, TLC

\* ------------------------------------------------------------------ bounds
MaxSource == 2
MaxTarget == 2
MaxRuns == 2
MaxFaults == 1
MaxTitle == 3

\* --------------------------------------------------------------- constants
CANCEL_PREFIX == <<"Cancelado", ":">>
LOCAL_TZ == 0 - 3
TIMEZONE == 0 - 3
HostOffsets == {0 - 3, 0}

\* Input universes.  A regular source title carries a trailing blank, so that
\* its key differs from the raw title; the empty title is an event whose
\* SUMMARY is empty; the last title is "Cancelado: a".
SourceTitles == { <<"a", " ">>, <<>>, <<"Cancelado", ":", " ", "a">> }
TargetTitles == { <<"a">> }
Slots == { <<9, 10>>, <<14, 15>> }
ApiOutcomes == {"ok", "error"}

\* ------------------------------------------------------------ str helpers
startswith(s, p) ==
    /\ Len(s) >= Len(p)
    /\ SubSeq(s, 1, Len(p)) = p

RECURSIVE lstrip(_)
lstrip(s) ==
    IF s = <<>> THEN <<>>
    ELSE IF Head(s) = " " THEN lstrip(Tail(s)) ELSE s

RECURSIVE rstrip(_)
rstrip(s) ==
    IF s = <<>> THEN <<>>
    ELSE IF s[Len(s)] = " " THEN rstrip(SubSeq(s, 1, Len(s) - 1)) ELSE s

strip(s) == rstrip(lstrip(s))

\* str.replace(old, ""): every non-overlapping occurrence, left to right.
RECURSIVE replace(_, _)
replace(s, old) ==
    IF s = <<>> THEN <<>>
    ELSE IF startswith(s, old) THEN replace(SubSeq(s, Len(old) + 1, Len(s)), old)
    ELSE <<Head(s)>> \o replace(Tail(s), old)

\* ------------------------------------------------------- datetime helpers
localize(dt, tz) == [utc |-> dt - tz, off |-> tz]
astimezone(aware, tz) == [utc |-> aware.utc, off |-> tz]
drop_tzinfo(aware) == aware.utc + aware.off

\* utils.parse_datetime on a datetime object: tzinfo and microseconds dropped.
parse_datetime(dt) == dt

\* calendar_sync.to_local on the naive value parse_datetime returns.
to_local(dt) == localize(dt, LOCAL_TZ)

\* naive.astimezone(tz): the naive value is read in the host's zone.
naive_astimezone(dt, host, tz) == astimezone(localize(dt, host), tz)

\* Variant: target times are read as local civil times, without conversion.
normalize_event_naive(event, source, host) ==
    <<strip(event.title),
      drop_tzinfo(to_local(parse_datetime(event.start))),
      drop_tzinfo(to_local(parse_datetime(event.end)))>>

normalize_event(event, source, host) ==
    LET title == strip(event.title)
        start_raw == parse_datetime(event.start)
        end_raw == parse_datetime(event.end)
    IN  IF source = "google"
        THEN <<title,
               drop_tzinfo(naive_astimezone(start_raw, host, LOCAL_TZ)),
               drop_tzinfo(naive_astimezone(end_raw, host, LOCAL_TZ))>>
        ELSE <<title,
               drop_tzinfo(to_local(start_raw)),
               drop_tzinfo(to_local(end_raw))>>

\* Variant: the stripped title is not trimmed.
cancel_key_nostrip(cancel_ev) ==
    <<replace(cancel_ev.title, CANCEL_PREFIX),
      drop_tzinfo(to_local(parse_datetime(cancel_ev.start))),
      drop_tzinfo(to_local(parse_datetime(cancel_ev.end)))>>

\* Key of the event a cancellation event names (calendar_sync.py 113-116).
cancel_key(cancel_ev) ==
    <<strip(replace(cancel_ev.title, CANCEL_PREFIX)),
      drop_tzinfo(to_local(parse_datetime(cancel_ev.start))),
      drop_tzinfo(to_local(parse_datetime(cancel_ev.end)))>>

\* ------------------------------------------------ defaultdict(list) model
\* A dict is the sequence of its entries in insertion order.
\* Variant: a bucket is found by title alone.
RECURSIVE dict_get_by_title(_, _)
dict_get_by_title(d, k) ==
    IF d = <<>> THEN <<>>
    ELSE IF Head(d).key[1] = k[1] THEN Head(d).evs ELSE dict_get_by_title(Tail(d), k)

RECURSIVE dict_get(_, _)
dict_get(d, k) ==
    IF d = <<>> THEN <<>>
    ELSE IF Head(d).key = k THEN Head(d).evs ELSE dict_get(Tail(d), k)

dict_has(d, k) == \E n \in 1..Len(d) : d[n].key = k

\* Variant: set-like index, an event with a known key is not appended.
dict_append_dedup(d, k, ev) ==
    IF dict_has(d, k) THEN d ELSE Append(d, [key |-> k, evs |-> <<ev>>])

dict_append(d, k, ev) ==
    IF dict_has(d, k)
    THEN [n \in 1..Len(d) |->
            IF d[n].key = k THEN [key |-> k, evs |-> Append(d[n].evs, ev)] ELSE d[n]]
    ELSE Append(d, [key |-> k, evs |-> <<ev>>])

\* Variant: no title is taken for a cancellation.
is_cancel_never(ev) == FALSE

is_cancel(ev) == startswith(ev.title, CANCEL_PREFIX)

\* Variant: a cancellation event is indexed under the key it names.
RECURSIVE build_teams_dict_all(_, _)
build_teams_dict_all(evs, d) ==
    IF evs = <<>> THEN d
    ELSE build_teams_dict_all(Tail(evs),
            dict_append(d, IF is_cancel(Head(evs)) THEN cancel_key(Head(evs))
                           ELSE normalize_event(Head(evs), "teams", 0), Head(evs)))

\* calendar_sync.py 91-98.
RECURSIVE build_teams_dict(_, _)
build_teams_dict(evs, d) ==
    IF evs = <<>> THEN d
    ELSE IF is_cancel(Head(evs)) THEN build_teams_dict(Tail(evs), d)
    ELSE build_teams_dict(Tail(evs),
            dict_append(d, normalize_event(Head(evs), "teams", 0), Head(evs)))

build_cancelado_events(evs) == SelectSeq(evs, is_cancel)

\* calendar_sync.py 100-102.
RECURSIVE build_google_dict(_, _, _)
build_google_dict(evs, d, host) ==
    IF evs = <<>> THEN d
    ELSE build_google_dict(Tail(evs),
            dict_append(d, normalize_event(Head(evs), "google", host), Head(evs)),
            host)

\* --------------------------------------------------- target store helpers
\* events.list(orderBy='startTime'): stable insertion of each stored event.
RECURSIVE insert_by_start(_, _)
insert_by_start(sorted, ev) ==
    IF sorted = <<>> THEN <<ev>>
    ELSE IF Head(sorted).start <= ev.start
         THEN <<Head(sorted)>> \o insert_by_start(Tail(sorted), ev)
         ELSE <<ev>> \o sorted

RECURSIVE order_by_start(_)
order_by_start(evs) ==
    IF evs = <<>> THEN <<>>
    ELSE insert_by_start(order_by_start(SubSeq(evs, 1, Len(evs) - 1)), evs[Len(evs)])

\* get_google_events 116-146: aware API times become naive host-local times.
google_event_out(ev, host) ==
    [id |-> ev.id, title |-> ev.title,
     start |-> drop_tzinfo(astimezone([utc |-> ev.start, off |-> TIMEZONE], host)),
     end |-> drop_tzinfo(astimezone([utc |-> ev.end, off |-> TIMEZONE], host))]

get_google_events(st, host) ==
    LET evs == order_by_start(st)
    IN  [n \in 1..Len(evs) |-> google_event_out(evs[n], host)]

store_has(st, id) == \E n \in 1..Len(st) : st[n].id = id

store_remove(st, id) == SelectSeq(st, LAMBDA e : e.id # id)

\* events.insert with body dateTime + timeZone (criar_evento_google 179-188).
store_insert(st, id, ev) ==
    Append(st, [id |-> id, title |-> ev.title,
                start |-> localize(ev.start, TIMEZONE).utc,
                end |-> localize(ev.end, TIMEZONE).utc])

\* Variant: HTTP 404 is reported as a failure.
remover_evento_google_by_id_strict(st, event_id, outcome) ==
    IF event_id = 0 THEN [ret |-> FALSE, store |-> st, called |-> FALSE]
    ELSE IF outcome = "ok"
         THEN IF store_has(st, event_id)
              THEN [ret |-> TRUE, store |-> store_remove(st, event_id), called |-> TRUE]
              ELSE [ret |-> FALSE, store |-> st, called |-> TRUE]
         ELSE [ret |-> FALSE, store |-> st, called |-> TRUE]

\* remover_evento_google_by_id: the returned bool and the store afterwards.
remover_evento_google_by_id(st, event_id, outcome) ==
    IF event_id = 0 THEN [ret |-> FALSE, store |-> st, called |-> FALSE]
    ELSE IF outcome = "ok"
         THEN IF store_has(st, event_id)
              THEN [ret |-> TRUE, store |-> store_remove(st, event_id), called |-> TRUE]
              ELSE [ret |-> TRUE, store |-> st, called |-> TRUE]  \* HTTP 404
         ELSE [ret |-> FALSE, store |-> st, called |-> TRUE]

\* Canonical key of a stored event, as any run on any host derives it.
store_key(ev) == <<strip(ev.title), ev.start + LOCAL_TZ, ev.end + LOCAL_TZ>>

\* ------------------------------------------------------------------ state
VARIABLES
    teams_feed,              \* what the ICS feed holds (unchanged by runs)
    store,                   \* the Google calendar: stored events
    next_id,                 \* id the calendar gives to the next insert
    run,                     \* number of the current run of main()
    pc,                      \* position of main()
    host,                    \* UTC offset of the host's system timezone
    required_configs,        \* the three settings read from the environment
    missing_configs,
    fetches,                 \* fetches of the current run and how they ended
    teams_events,
    google_events,
    teams_dict,
    cancelado_events,
    google_dict,
    created_count,
    deleted_count,
    canceled_deleted_count,
    missing_cancel_matches,
    i,                       \* outer loop position of the current step
    j,                       \* inner loop position of the current step
    calls,                   \* create/delete calls of the current run
    clean,                   \* no fetch, create or delete failed in this run
    faults,                  \* failed fetch, create and delete calls so far
    history,                 \* how the run before the current one ended
    attempt,                 \* _retry: attempts used up by failed calls
    invocations,             \* _retry: outcomes of the calls of callable_fn so far
    result,                  \* _retry: still running, or what it returned or raised
    probe                    \* input and result of one call of a function

env == <<teams_feed, store, next_id>>
locals == <<host, required_configs, missing_configs, fetches, teams_events, google_events, teams_dict,
            cancelado_events, google_dict>>
counters == <<created_count, deleted_count, canceled_deleted_count,
              missing_cancel_matches>>
aux == <<attempt, invocations, result, probe>>
vars == <<env, run, pc, locals, counters, i, j, calls, clean, faults, history, aux>>

ConfigNames == {"TEAMS_ICS_URL", "GOOGLE_SERVICE_ACCOUNT_KEY", "GOOGLE_CALENDAR_ID"}

\* os.environ.get of a setting: "None" when it is not set, else its text.
ConfigValues == {"None", "", "set"}

\* Variant: only a setting that is not set at all counts as missing.
falsy_unset_only(value) == value = "None"

\* `not value` for a setting (calendar_sync.py 64).
falsy(value) == value = "None" \/ value = ""

\* calendar_sync.py 63-65.
find_missing_configs(required) == { key \in DOMAIN required : falsy(required[key]) }

SeqsUpTo(S, n) == UNION { [1..m -> S] : m \in 0..n }

SourceEvents ==
    { [title |-> t, start |-> w[1], end |-> w[2]] : t \in SourceTitles, w \in Slots }

\* Stored events hold instants; ids are given in insertion order.
TargetShapes ==
    { [title |-> t, start |-> localize(w[1], TIMEZONE).utc,
       end |-> localize(w[2], TIMEZONE).utc] : t \in TargetTitles, w \in Slots }

with_ids(shapes) ==
    [n \in 1..Len(shapes) |->
        [id |-> n, title |-> shapes[n].title,
         start |-> shapes[n].start, end |-> shapes[n].end]]

Init ==
    /\ teams_feed \in SeqsUpTo(SourceEvents, MaxSource)
    /\ \E shapes \in SeqsUpTo(TargetShapes, MaxTarget) :
          /\ store = with_ids(shapes)
          /\ next_id = Len(shapes) + 1
    /\ run = 1
    /\ pc = "start"
    /\ host \in HostOffsets
    /\ required_configs = <<>>
    /\ missing_configs = {}
    /\ fetches = <<>>
    /\ teams_events = <<>>
    /\ google_events = <<>>
    /\ teams_dict = <<>>
    /\ cancelado_events = <<>>
    /\ google_dict = <<>>
    /\ created_count = 0
    /\ deleted_count = 0
    /\ canceled_deleted_count = 0
    /\ missing_cancel_matches = 0
    /\ i = 1
    /\ j = 1
    /\ calls = <<>>
    /\ clean = TRUE
    /\ faults = 0
    /\ history = <<>>
    /\ attempt = 0
    /\ invocations = <<>>
    /\ result = [status |-> "idle"]
    /\ probe = [fn |-> "none"]

\* ---------------------------------------------------------------- actions
\* Outcomes a call to a collaborator can have in the current state: a call
\* succeeds, or fails for good after the retries of _retry; at most MaxFaults
\* calls fail in one behaviour.
outcomes == IF faults < MaxFaults THEN ApiOutcomes ELSE {"ok"}

failed(ok) == IF ok THEN faults ELSE faults + 1

\* 0. Validate configuration (calendar_sync.py 55-73).
Validate ==
    /\ pc = "start"
    /\ \E required \in [ConfigNames -> ConfigValues] :
          /\ required_configs' = required
          /\ missing_configs' = find_missing_configs(required)
          /\ pc' = IF find_missing_configs(required) # {} THEN "aborted"
                   ELSE "fetch_teams"
    /\ UNCHANGED <<env, run, host, fetches, teams_events, google_events, teams_dict,
                   cancelado_events, google_dict, counters, i, j, calls,
                   clean, faults, history, aux>>

\* get_teams_events: the events of the feed, or None on any error.
get_teams_events(feed, outcome) ==
    IF outcome = "ok" THEN [none |-> FALSE, events |-> feed]
    ELSE [none |-> TRUE, events |-> <<>>]

\* Variant: an empty list halts the run as None does (`not teams_events`).
halts_on_falsy(fetched) == fetched.none \/ fetched.events = <<>>

\* `teams_events is None` (calendar_sync.py 78).
halts_on(fetched) == fetched.none

\* 1. Fetch Teams events (calendar_sync.py 75-81).
FetchTeams ==
    /\ pc = "fetch_teams"
    /\ \E outcome \in outcomes :
          LET fetched == get_teams_events(teams_feed, outcome)
          IN  /\ fetches' = Append(fetches, [of |-> "teams", ok |-> ~fetched.none,
                                             count |-> Len(fetched.events)])
              /\ clean' = (clean /\ ~fetched.none)
              /\ faults' = failed(~fetched.none)
              /\ IF halts_on(fetched)
                 THEN /\ teams_events' = teams_events
                      /\ pc' = "aborted"
                 ELSE /\ teams_events' = fetched.events
                      /\ pc' = "fetch_google"
    /\ UNCHANGED <<env, run, host, required_configs, missing_configs, google_events, teams_dict,
                   cancelado_events, google_dict, counters, i, j, calls, history, aux>>

\* 2. Fetch Google events (calendar_sync.py 83-87); an error is raised.
FetchGoogle ==
    /\ pc = "fetch_google"
    /\ \E outcome \in outcomes :
          IF outcome = "ok"
          THEN /\ google_events' = get_google_events(store, host)
               /\ fetches' = Append(fetches, [of |-> "google", ok |-> TRUE,
                                              count |-> Len(store)])
               /\ pc' = "index"
               /\ clean' = clean
               /\ faults' = faults
          ELSE /\ google_events' = google_events
               /\ fetches' = Append(fetches, [of |-> "google", ok |-> FALSE,
                                              count |-> 0])
               /\ pc' = "aborted"
               /\ clean' = FALSE
               /\ faults' = faults + 1
    /\ UNCHANGED <<env, run, host, required_configs, missing_configs, teams_events, teams_dict,
                   cancelado_events, google_dict, counters, i, j, calls, history, aux>>

\* 3. Build the lookup dicts and reset the counters (calendar_sync.py 89-108).
BuildIndex ==
    /\ pc = "index"
    /\ teams_dict' = build_teams_dict(teams_events, <<>>)
    /\ cancelado_events' = build_cancelado_events(teams_events)
    /\ google_dict' = build_google_dict(google_events, <<>>, host)
    /\ created_count' = 0
    /\ deleted_count' = 0
    /\ canceled_deleted_count' = 0
    /\ missing_cancel_matches' = 0
    /\ i' = 1
    /\ j' = 1
    /\ pc' = "cancel"
    /\ UNCHANGED <<env, run, host, required_configs, missing_configs, fetches,
                   teams_events, google_events, calls, clean, faults, history, aux>>

\* One call of delete_google_event_by_id from main(): its effect on the
\* calendar and the record of the call.
delete_call(g_ev, step, outcome) ==
    LET r == remover_evento_google_by_id(store, g_ev.id, outcome)
    IN  /\ store' = r.store
        /\ calls' = Append(calls, [op |-> "delete", step |-> step, src |-> i,
                                   id |-> g_ev.id, title |-> g_ev.title,
                                   key |-> normalize_event(g_ev, "google", host),
                                   ret |-> r.ret])
        /\ clean' = (clean /\ r.ret)
        /\ faults' = failed(r.ret)

\* 4. Handle canceled events (calendar_sync.py 110-130).
CancelDelete ==
    /\ pc = "cancel"
    /\ i <= Len(cancelado_events)
    /\ LET g_events_list == dict_get(google_dict, cancel_key(cancelado_events[i]))
       IN  /\ g_events_list # <<>>
           /\ \E outcome \in outcomes : delete_call(g_events_list[j], "cancel", outcome)
           /\ canceled_deleted_count' = canceled_deleted_count + 1
           /\ IF j < Len(g_events_list)
              THEN /\ j' = j + 1
                   /\ i' = i
              ELSE /\ j' = 1
                   /\ i' = i + 1
    /\ UNCHANGED <<teams_feed, next_id, run, pc, locals, created_count,
                   deleted_count, missing_cancel_matches, history, aux>>

CancelNoMatch ==
    /\ pc = "cancel"
    /\ i <= Len(cancelado_events)
    /\ dict_get(google_dict, cancel_key(cancelado_events[i])) = <<>>
    /\ missing_cancel_matches' = missing_cancel_matches + 1
    /\ i' = i + 1
    /\ UNCHANGED <<env, run, pc, locals, created_count, deleted_count,
                   canceled_deleted_count, j, calls, clean, faults, history, aux>>

\* Variant: orphans are deleted before the missing events are created.
next_step_orphans_first(step) ==
    IF step = "cancel" THEN "orphan"
    ELSE IF step = "orphan" THEN "create"
    ELSE "done"

\* The step main() goes on with when the loop of a step is over: steps 4, 5
\* and 6 follow each other in the text of main().
next_step(step) ==
    IF step = "cancel" THEN "create"
    ELSE IF step = "create" THEN "orphan"
    ELSE "done"

\* calendar_sync.py 132-138.
CancelEnd ==
    /\ pc = "cancel"
    /\ i > Len(cancelado_events)
    /\ pc' = next_step("cancel")
    /\ i' = 1
    /\ j' = 1
    /\ UNCHANGED <<env, run, locals, counters, calls, clean, faults, history, aux>>

\* Variant: a single event is created whatever the difference.
events_to_create_once(teams_count, google_count) ==
    IF teams_count > google_count THEN 1 ELSE 0

\* calendar_sync.py 145-146.
events_to_create(teams_count, google_count) ==
    IF teams_count > google_count THEN teams_count - google_count ELSE 0

\* calendar_sync.py 150-154: the event handed to create_google_event.
create_template(template_ev) ==
    [title |-> template_ev.title,
     start |-> drop_tzinfo(to_local(parse_datetime(template_ev.start))),
     end |-> drop_tzinfo(to_local(parse_datetime(template_ev.end)))]

\* criar_evento_google 174-177: a falsy field raises ValueError.
create_valid(ev) == ev.title # <<>>

\* 5. Create missing events (calendar_sync.py 137-155); a failed create raises.
CreateCall ==
    /\ pc = "create"
    /\ i <= Len(teams_dict)
    /\ LET teams_events_list == teams_dict[i].evs
           google_events_list == dict_get(google_dict, teams_dict[i].key)
           n == events_to_create(Len(teams_events_list), Len(google_events_list))
           ev == create_template(teams_events_list[1])
       IN  /\ n > 0
           /\ \E outcome \in outcomes :
                 LET ok == create_valid(ev) /\ outcome = "ok"
                 IN  /\ calls' = Append(calls, [op |-> "create", step |-> "create",
                                                src |-> i,
                                                id |-> IF ok THEN next_id ELSE 0,
                                                title |-> ev.title,
                                                key |-> teams_dict[i].key,
                                                ret |-> ok])
                     /\ IF ok
                        THEN /\ store' = store_insert(store, next_id, ev)
                             /\ next_id' = next_id + 1
                             /\ created_count' = created_count + 1
                             /\ clean' = clean
                             /\ faults' = faults
                             /\ pc' = pc
                             /\ IF j < n
                                THEN /\ j' = j + 1
                                     /\ i' = i
                                ELSE /\ j' = 1
                                     /\ i' = i + 1
                        ELSE /\ pc' = "aborted"
                             /\ clean' = FALSE
                             /\ faults' = failed(create_valid(ev))
                             /\ UNCHANGED <<store, next_id, created_count, i, j>>
    /\ UNCHANGED <<teams_feed, run, locals, deleted_count, canceled_deleted_count,
                   missing_cancel_matches, history, aux>>

CreateSkip ==
    /\ pc = "create"
    /\ i <= Len(teams_dict)
    /\ events_to_create(Len(teams_dict[i].evs),
                        Len(dict_get(google_dict, teams_dict[i].key))) = 0
    /\ i' = i + 1
    /\ UNCHANGED <<env, run, pc, locals, counters, j, calls, clean, faults, history, aux>>

\* calendar_sync.py 157-163.
CreateEnd ==
    /\ pc = "create"
    /\ i > Len(teams_dict)
    /\ pc' = next_step("create")
    /\ i' = 1
    /\ j' = 1
    /\ UNCHANGED <<env, run, locals, counters, calls, clean, faults, history, aux>>

\* Variant: every event of the bucket is taken for excess.
events_to_delete_all(google_count, teams_count) == google_count

\* calendar_sync.py 170-171.
events_to_delete(google_count, teams_count) ==
    IF google_count > teams_count THEN google_count - teams_count ELSE 0

\* Variant: the excess events are taken from the end of the bucket.
excess_event_from_end(google_events_list, k) ==
    google_events_list[Len(google_events_list) + 1 - k]

\* calendar_sync.py 173-174: the k-th pass of `for i in range(events_to_delete)`
\* reads google_events_list[i].
excess_event(google_events_list, k) == google_events_list[k]

\* 6. Delete orphan events (calendar_sync.py 162-182).
OrphanDelete ==
    /\ pc = "orphan"
    /\ i <= Len(google_dict)
    /\ LET google_events_list == google_dict[i].evs
           teams_events_list == dict_get(teams_dict, google_dict[i].key)
           n == events_to_delete(Len(google_events_list), Len(teams_events_list))
       IN  /\ n > 0
           /\ \E outcome \in outcomes : delete_call(excess_event(google_events_list, j), "orphan", outcome)
           /\ deleted_count' = deleted_count + 1
           /\ IF j < n
              THEN /\ j' = j + 1
                   /\ i' = i
              ELSE /\ j' = 1
                   /\ i' = i + 1
    /\ UNCHANGED <<teams_feed, next_id, run, pc, locals, created_count,
                   canceled_deleted_count, missing_cancel_matches, history, aux>>

OrphanSkip ==
    /\ pc = "orphan"
    /\ i <= Len(google_dict)
    /\ events_to_delete(Len(google_dict[i].evs),
                        Len(dict_get(teams_dict, google_dict[i].key))) = 0
    /\ i' = i + 1
    /\ UNCHANGED <<env, run, pc, locals, counters, j, calls, clean, faults, history, aux>>

\* calendar_sync.py 184-193: the summary is logged and main() returns.
Summary ==
    /\ pc = "orphan"
    /\ i > Len(google_dict)
    /\ pc' = next_step("orphan")
    /\ i' = 1
    /\ j' = 1
    /\ UNCHANGED <<env, run, locals, counters, calls, clean, faults, history, aux>>

\* The next run of main(): a new process, started right after the last one
\* returned, against the same feed and the calendar as the last run left it.
NextRun ==
    /\ pc = "done"
    /\ run < MaxRuns
    /\ history' = <<[clean |-> clean]>>
    /\ run' = run + 1
    /\ pc' = "start"
    /\ host' = host
    /\ missing_configs' = {}
    /\ teams_events' = <<>>
    /\ google_events' = <<>>
    /\ teams_dict' = <<>>
    /\ cancelado_events' = <<>>
    /\ google_dict' = <<>>
    /\ created_count' = 0
    /\ deleted_count' = 0
    /\ canceled_deleted_count' = 0
    /\ missing_cancel_matches' = 0
    /\ i' = 1
    /\ j' = 1
    /\ calls' = <<>>
    /\ clean' = TRUE
    /\ required_configs' = <<>>
    /\ fetches' = <<>>
    /\ UNCHANGED <<env, faults, aux>>

Next ==
    \/ Validate
    \/ FetchTeams
    \/ FetchGoogle
    \/ BuildIndex
    \/ CancelDelete
    \/ CancelNoMatch
    \/ CancelEnd
    \/ CreateCall
    \/ CreateSkip
    \/ CreateEnd
    \/ OrphanDelete
    \/ OrphanSkip
    \/ Summary
    \/ NextRun

Spec == Init /\ [][Next]_vars

\* ----------------------------------------------------------------- _retry
\* One call of _retry on its own: no run of main() is under way.
no_run ==
    /\ teams_feed = <<>>
    /\ store = <<>>
    /\ next_id = 1
    /\ run = 1
    /\ pc = "start"
    /\ host = LOCAL_TZ
    /\ required_configs = <<>>
    /\ missing_configs = {}
    /\ fetches = <<>>
    /\ teams_events = <<>>
    /\ google_events = <<>>
    /\ teams_dict = <<>>
    /\ cancelado_events = <<>>
    /\ google_dict = <<>>
    /\ created_count = 0
    /\ deleted_count = 0
    /\ canceled_deleted_count = 0
    /\ missing_cancel_matches = 0
    /\ i = 1
    /\ j = 1
    /\ calls = <<>>
    /\ clean = TRUE
    /\ faults = 0
    /\ history = <<>>

main_vars == <<env, run, pc, locals, counters, i, j, calls, clean, faults, history>>

\* Default of the keyword argument (google_calendar.py 59).
max_attempts == 4

\* Statuses _retry takes for transient (google_calendar.py 67).
TransientStatuses == {429, 500, 502, 503, 504}

\* Statuses the callers tell apart in their logs.
OtherStatuses == {403, 404}

\* What one call of callable_fn can do: return, raise HttpError with a
\* status, or raise another exception.
CallOutcomes ==
    {[kind |-> "return", status |-> 200], [kind |-> "Exception", status |-> 0]}
    \cup { [kind |-> "HttpError", status |-> st] :
              st \in TransientStatuses \cup OtherStatuses }

\* Variant: one more attempt is allowed.
may_retry_once_more(att) == att < max_attempts

\* `attempt < max_attempts - 1` (google_calendar.py 67, 75).
may_retry(att) == att < max_attempts - 1

\* The except clauses of _retry: is the failed call tried again?
retried(outcome, att) ==
    IF outcome.kind = "HttpError"
    THEN outcome.status \in TransientStatuses /\ may_retry(att)
    ELSE may_retry(att)

RetryInit ==
    /\ no_run
    /\ attempt = 0
    /\ invocations = <<>>
    /\ result = [status |-> "running"]
    /\ probe = [fn |-> "_retry"]

\* One pass of the `while True` loop: callable_fn is called once.
RetryCall ==
    /\ result.status = "running"
    /\ \E outcome \in CallOutcomes :
          /\ invocations' = Append(invocations, outcome)
          /\ IF outcome.kind = "return"
             THEN /\ result' = [status |-> "returned", of |-> Len(invocations) + 1,
                                value |-> outcome]
                  /\ attempt' = attempt
             ELSE IF retried(outcome, attempt)
             THEN /\ result' = result
                  /\ attempt' = attempt + 1
             ELSE /\ result' = [status |-> "raised", of |-> Len(invocations) + 1,
                                value |-> outcome]
                  /\ attempt' = attempt
    /\ UNCHANGED <<main_vars, probe>>

RetryNext == RetryCall

\* The loop is not abandoned: a call that is due is made.
SpecRetry == RetryInit /\ [][RetryNext]_vars /\ WF_vars(RetryCall)

\* ------------------------------------------ remover_evento_google_by_id
\* What events.delete can do when it is called: "ok" is a calendar that
\* answers (the event is deleted, or HTTP 404 when it is not there), the
\* others are HTTP 403, another HttpError left after the retries, and an
\* exception that is not an HttpError.
DeleteOutcomes == {"ok", "forbidden", "error", "exception"}

\* Ids handed to the function: 0 is a missing id, the others are ids the
\* calendar has given or may give.
EventIds == 0..(MaxTarget + 1)

DeleteInit ==
    /\ no_run
    /\ attempt = 0
    /\ invocations = <<>>
    /\ result = [status |-> "idle"]
    /\ \E shapes \in SeqsUpTo(TargetShapes, MaxTarget) :
          probe = [fn |-> "none", store |-> with_ids(shapes), gone |-> {}]

\* One call of remover_evento_google_by_id against the calendar as the calls
\* before left it.
DeleteById ==
    \E event_id \in EventIds, outcome \in DeleteOutcomes :
        LET r == remover_evento_google_by_id(probe.store, event_id, outcome)
        IN  /\ probe' = [fn |-> "remover_evento_google_by_id",
                         event_id |-> event_id, outcome |-> outcome,
                         before |-> probe.store, store |-> r.store,
                         ret |-> r.ret, called |-> r.called,
                         gone |-> IF store_has(probe.store, event_id)
                                     /\ ~store_has(r.store, event_id)
                                  THEN probe.gone \cup {event_id}
                                  ELSE probe.gone,
                         repeated |-> event_id \in probe.gone]
            /\ UNCHANGED <<main_vars, attempt, invocations, result>>

DeleteNext == DeleteById

SpecDelete == DeleteInit /\ [][DeleteNext]_vars

\* -------------------------------------------------------- normalize_event
\* UTC offsets a timestamp can be written with.
WrittenOffsets == {0 - 3, 0, 2}

\* Instants (hours, UTC) at which the events of the calls below start.
Instants == {12, 17}

Origins == {"teams", "google"}

\* An instant written with a UTC offset: the civil time of that offset and
\* the offset, as in "2024-01-01T09:00:00-03:00" or an aware datetime.
written(utc, off) == [civil |-> utc + off, off |-> off]

\* utils.parse_datetime on a timestamp with an offset: the text of the offset
\* is cut off (lines 23-26), the tzinfo of an aware datetime is replaced by
\* None (lines 33-34); the civil time is kept as written.
parse_datetime_offset(ts) == ts.civil

\* normalize_event on an event whose start and end carry an offset:
\* parse_datetime is applied first and returns a naive datetime, on which it
\* changes nothing when normalize_event goes on.
normalize_event_offset(event, source, host_tz) ==
    normalize_event([title |-> event.title,
                     start |-> parse_datetime_offset(event.start),
                     end |-> parse_datetime_offset(event.end)], source, host_tz)

KeyInit ==
    /\ no_run
    /\ attempt = 0
    /\ invocations = <<>>
    /\ result = [status |-> "idle"]
    /\ probe = [fn |-> "none"]

\* normalize_event on two events with one title and the same instants,
\* written with two offsets, in one process.
NormalizeOffsets ==
    \E title \in SourceTitles, utc \in Instants, off_a \in WrittenOffsets,
       off_b \in WrittenOffsets, source \in Origins, host_tz \in HostOffsets :
        LET a == [title |-> title, start |-> written(utc, off_a),
                  end |-> written(utc + 1, off_a)]
            b == [title |-> title, start |-> written(utc, off_b),
                  end |-> written(utc + 1, off_b)]
        IN  /\ probe' = [fn |-> "offsets", a |-> a, b |-> b, source |-> source,
                         host_a |-> host_tz, host_b |-> host_tz,
                         key_a |-> normalize_event_offset(a, source, host_tz),
                         key_b |-> normalize_event_offset(b, source, host_tz)]
            /\ UNCHANGED <<main_vars, attempt, invocations, result>>

\* normalize_event on one event in two processes whose hosts have different
\* system timezones.
NormalizeHosts ==
    \E ev \in SourceEvents, source \in Origins, host_a \in HostOffsets,
       host_b \in HostOffsets :
        /\ host_a # host_b
        /\ probe' = [fn |-> "hosts", a |-> ev, b |-> ev, source |-> source,
                     host_a |-> host_a, host_b |-> host_b,
                     key_a |-> normalize_event(ev, source, host_a),
                     key_b |-> normalize_event(ev, source, host_b)]
        /\ UNCHANGED <<main_vars, attempt, invocations, result>>

KeyNext ==
    \/ NormalizeOffsets
    \/ NormalizeHosts

SpecKey == KeyInit /\ [][KeyNext]_vars

\* ------------------------------------------- key of a cancellation event
\* Pieces the text after the marker is made of.
TitleTokens == {"a", " ", "Cancelado", ":"}

\* Texts that can follow the marker in the title of a cancellation event.
RestTitles == SeqsUpTo(TitleTokens, MaxTitle)

CancelInit ==
    /\ no_run
    /\ attempt = 0
    /\ invocations = <<>>
    /\ result = [status |-> "idle"]
    /\ probe = [fn |-> "none"]

\* calendar_sync.py 112-116 for one cancellation event.
CancelKey ==
    /\ probe.fn = "none"
    /\ \E rest \in RestTitles, w \in Slots :
          LET cancel_ev == [title |-> CANCEL_PREFIX \o rest, start |-> w[1], end |-> w[2]]
          IN  /\ is_cancel(cancel_ev)
              /\ probe' = [fn |-> "cancel_key", cancel_ev |-> cancel_ev, rest |-> rest,
                           key |-> cancel_key(cancel_ev)]
    /\ UNCHANGED <<main_vars, attempt, invocations, result>>

CancelNext == CancelKey

SpecCancel == CancelInit /\ [][CancelNext]_vars

\* ----------------------------------------------------- step 3 on its own
\* Titles an event of the calendar can have: anyone can write to the
\* calendar, a title that starts with the marker included.
StoredTitles == { <<"a">>, <<"Cancelado", ":", " ", "a">> }

StoredShapes ==
    { [title |-> t, start |-> localize(w[1], TIMEZONE).utc,
       end |-> localize(w[2], TIMEZONE).utc] : t \in StoredTitles, w \in Slots }

IndexInit ==
    /\ no_run
    /\ attempt = 0
    /\ invocations = <<>>
    /\ result = [status |-> "idle"]
    /\ probe = [fn |-> "none"]

\* Steps 1 to 3 of main() (calendar_sync.py 75-102) on a feed and a calendar:
\* both lists are fetched and both dicts are built.
IndexBoth ==
    /\ probe.fn = "none"
    /\ \E feed \in SeqsUpTo(SourceEvents, MaxSource),
          shapes \in SeqsUpTo(StoredShapes, MaxTarget), host_tz \in HostOffsets :
          LET fetched == get_google_events(with_ids(shapes), host_tz)
          IN  probe' = [fn |-> "index", teams_events |-> feed,
                        google_events |-> fetched,
                        teams_dict |-> build_teams_dict(feed, <<>>),
                        cancelado_events |-> build_cancelado_events(feed),
                        google_dict |-> build_google_dict(fetched, <<>>, host_tz)]
    /\ UNCHANGED <<main_vars, attempt, invocations, result>>

IndexNext == IndexBoth

SpecIndex == IndexInit /\ [][IndexNext]_vars

\* --------------------------------------------------- get_calendar_service
\* google_calendar.py 36.
required_keys == {"type", "project_id", "private_key", "client_email"}

\* A field of the credentials object: not there, there and falsy, or set.
FieldValues == {"absent", "empty", "set"}

\* GOOGLE_SERVICE_ACCOUNT_KEY: not set, empty, text that is not JSON, JSON
\* that is a number, true, false or null, or a JSON object.
ServiceAccountKeys ==
    { [kind |-> k, fields |-> [f \in required_keys |-> "absent"]] :
        k \in {"unset", "empty", "malformed", "scalar"} }
    \cup { [kind |-> "object", fields |-> fs] : fs \in [required_keys -> FieldValues] }

\* What Credentials.from_service_account_info and build can do.
CredentialsOutcomes == {"ok", "ValueError", "Exception"}
BuildOutcomes == {"ok", "Exception"}

\* get_calendar_service (google_calendar.py 17-57): what the caller gets.
\* ValueError and json.JSONDecodeError are raised again; the clause
\* `except Exception` logs and falls off the end of the function.
get_calendar_service(key, credentials, built) ==
    IF key.kind \in {"unset", "empty"}
    THEN [kind |-> "raised", error |-> "ValueError"]
    ELSE IF key.kind = "malformed"
    THEN [kind |-> "raised", error |-> "JSONDecodeError"]
    ELSE IF key.kind = "scalar"
    THEN [kind |-> "returned", error |-> "None"]      \* TypeError of `k not in`
    ELSE IF \E f \in required_keys : key.fields[f] # "set"
    THEN [kind |-> "raised", error |-> "ValueError"]
    ELSE IF credentials = "ValueError"
    THEN [kind |-> "raised", error |-> "ValueError"]
    ELSE IF credentials = "Exception" \/ built = "Exception"
    THEN [kind |-> "returned", error |-> "None"]
    ELSE [kind |-> "returned", error |-> "service"]

ServiceInit ==
    /\ no_run
    /\ attempt = 0
    /\ invocations = <<>>
    /\ result = [status |-> "idle"]
    /\ probe = [fn |-> "none"]

GetCalendarService ==
    /\ probe.fn = "none"
    /\ \E key \in ServiceAccountKeys, credentials \in CredentialsOutcomes,
          built \in BuildOutcomes :
          probe' = [fn |-> "get_calendar_service", key |-> key,
                    credentials |-> credentials, built |-> built,
                    svc |-> get_calendar_service(key, credentials, built)]
    /\ UNCHANGED <<main_vars, attempt, invocations, result>>

ServiceNext == GetCalendarService

SpecService == ServiceInit /\ [][ServiceNext]_vars

\* ------------------------------------------------------- the sync window
\* Hours are counted from 00:00 of the Monday of the current week.
\* config.py 52-54; DAYS_RANGE is set to its smallest value (the default is 11).
START_HOUR == 7
END_HOUR == 18
DAYS_RANGE == 1
HoursPerDay == 24

\* utils.get_sync_period: start and end as local civil times.
get_sync_period ==
    [start |-> START_HOUR, end |-> DAYS_RANGE * HoursPerDay + END_HOUR]

\* recurring_ical_events ... between(start, end): the events that overlap the
\* span (teams_functions.py 41-44).
between(feed, start, end) ==
    SelectSeq(feed, LAMBDA ev : ev.start < end /\ ev.end > start)

\* google_calendar.py 100: one day is added to the end.
extended_end(end) == end + HoursPerDay

\* _list_call (google_calendar.py 103-111): timeMin and timeMax are the naive
\* local values with 'Z' appended, so they are read as UTC; the calendar
\* returns the events that end after timeMin and start before timeMax.
list_call(st, start, end) ==
    SelectSeq(st, LAMBDA ev : ev.end > start /\ ev.start < extended_end(end))

\* Step 6 (calendar_sync.py 164-182): the ids handed to delete.
orphan_deletions(td, gd) ==
    UNION { { excess_event(gd[n].evs, m).id :
                m \in 1..events_to_delete(Len(gd[n].evs),
                                          Len(dict_get(td, gd[n].key))) } :
            n \in 1..Len(gd) }

\* Local start hours of the events below: Monday 09:00 (inside the window),
\* Wednesday 09:00 and Thursday 09:00 (both after its end).
WindowStarts == {9, 2 * HoursPerDay + 9, 3 * HoursPerDay + 9}

WindowSourceEvents ==
    { [title |-> <<"a">>, start |-> h, end |-> h + 1] : h \in WindowStarts }

WindowStoredShapes ==
    { [title |-> <<"a">>, start |-> localize(h, TIMEZONE).utc,
       end |-> localize(h + 1, TIMEZONE).utc] : h \in WindowStarts }

WindowInit ==
    /\ no_run
    /\ attempt = 0
    /\ invocations = <<>>
    /\ result = [status |-> "idle"]
    /\ probe = [fn |-> "none"]

\* Steps 1 to 3 and 6 of main() on a feed and a calendar whose events lie
\* inside and outside the window.
SyncWindow ==
    /\ probe.fn = "none"
    /\ \E feed \in SeqsUpTo(WindowSourceEvents, MaxSource),
          shapes \in SeqsUpTo(WindowStoredShapes, MaxTarget), host_tz \in HostOffsets :
          LET period == get_sync_period
              st == with_ids(shapes)
              fetched_teams == between(feed, period.start, period.end)
              fetched_google ==
                  get_google_events(list_call(st, period.start, period.end), host_tz)
              td == build_teams_dict(fetched_teams, <<>>)
              gd == build_google_dict(fetched_google, <<>>, host_tz)
          IN  probe' = [fn |-> "window", feed |-> feed, store |-> st,
                        period |-> period,
                        teams_events |-> fetched_teams,
                        google_events |-> fetched_google,
                        indexed |-> { fetched_google[n].id : n \in 1..Len(fetched_google) },
                        deleted |-> orphan_deletions(td, gd)]
    /\ UNCHANGED <<main_vars, attempt, invocations, result>>

WindowNext == SyncWindow

SpecWindow == WindowInit /\ [][WindowNext]_vars

\* ------------------------------------------------------------ properties
\* What the properties count, read off the inputs rather than off the dicts.
is_marked(ev) == startswith(ev.title, CANCEL_PREFIX)

\* Key of a source event: trimmed title, its own civil start and end.
source_key(ev) == <<strip(ev.title), ev.start, ev.end>>

\* Key a cancellation event names: the leading marker removed, trimmed.
named_key(ev) ==
    <<strip(SubSeq(ev.title, Len(CANCEL_PREFIX) + 1, Len(ev.title))), ev.start, ev.end>>

\* Key of a fetched target event: host-local time back to Sao Paulo time.
fetched_key(ev) ==
    <<strip(ev.title), (ev.start - host) + LOCAL_TZ, (ev.end - host) + LOCAL_TZ>>

regular_at(evs, k) == { n \in 1..Len(evs) : ~is_marked(evs[n]) /\ source_key(evs[n]) = k }
cancels_at(evs, k) == { n \in 1..Len(evs) : is_marked(evs[n]) /\ named_key(evs[n]) = k }
stored_at(st, k) == { n \in 1..Len(st) : store_key(st[n]) = k }
fetched_at(evs, k) == { n \in 1..Len(evs) : fetched_key(evs[n]) = k }
calls_at(op, k) == { n \in 1..Len(calls) : calls[n].op = op /\ calls[n].key = k }

AllKeys ==
    { source_key(teams_feed[n]) : n \in 1..Len(teams_feed) }
    \cup { named_key(teams_feed[n]) : n \in 1..Len(teams_feed) }
    \cup { store_key(store[n]) : n \in 1..Len(store) }
    \cup { fetched_key(google_events[n]) : n \in 1..Len(google_events) }

Max0(n) == IF n > 0 THEN n ELSE 0

\* Both lists were fetched and main() has returned or raised afterwards.
RunEnded == pc = "done" \/ (pc = "aborted" /\ calls # <<>>)

\* Step 4 is over in the current run.
CancelStepOver == pc \in {"create", "orphan", "done"} \/ (pc = "aborted" /\ calls # <<>>)

\* C1: convergence. When the feed holds no cancellation-marked event and every
\* create and delete call succeeded, then at the end of main() the calendar
\* holds, for every key, as many events as the feed.
C1_Convergence ==
    (/\ pc = "done"
     /\ clean
     /\ \A n \in 1..Len(teams_feed) : ~is_marked(teams_feed[n]))
    => \A k \in AllKeys :
          Cardinality(stored_at(store, k)) = Cardinality(regular_at(teams_feed, k))

\* A clean run without cancellations that both created and deleted.
C1_Witness ==
    /\ pc = "done"
    /\ clean
    /\ \A n \in 1..Len(teams_feed) : ~is_marked(teams_feed[n])
    /\ created_count > 0
    /\ deleted_count > 0

\* C2: idempotence. A run that follows a completed run, both without a failed
\* call and with the feed unchanged, issues no create and no delete call.
C2_Idempotence ==
    (/\ run > 1
     /\ pc = "done"
     /\ clean
     /\ history[1].clean)
    => calls = <<>>

\* C3: within one run no target event id is passed to the delete call twice.
C3_NoDoubleDelete ==
    \A m \in 1..Len(calls) : \A n \in 1..Len(calls) :
        (m # n /\ calls[m].op = "delete" /\ calls[n].op = "delete")
        => calls[m].id # calls[n].id

\* C4: cancellation precedence. When the feed holds a cancellation naming key
\* k and no regular event with key k, no create call is ever issued for k, and
\* when main() returns a delete call has been issued for every fetched target
\* event with key k, so that after a run without failed calls the calendar
\* holds no event with key k.
C4_CancellationPrecedence ==
    \A k \in AllKeys :
        (/\ pc \notin {"start", "fetch_teams"}
         /\ cancels_at(teams_events, k) # {}
         /\ regular_at(teams_events, k) = {})
        => /\ calls_at("create", k) = {}
           /\ pc = "done" =>
                /\ \A n \in fetched_at(google_events, k) :
                      \E m \in 1..Len(calls) :
                          calls[m].op = "delete" /\ calls[m].id = google_events[n].id
                /\ clean => stored_at(store, k) = {}

\* A completed clean run whose feed cancelled an event the calendar held and
\* listed no regular event with that key.
C4_Witness ==
    /\ pc = "done"
    /\ clean
    /\ \E k \in AllKeys :
          /\ cancels_at(teams_events, k) # {}
          /\ regular_at(teams_events, k) = {}
          /\ fetched_at(google_events, k) # {}

\* The feed is one regular event and one cancellation naming its key, and the
\* calendar held exactly one event, with that key.
C5_Case ==
    /\ pc \notin {"start", "fetch_teams", "fetch_google"}
    /\ Len(teams_events) = 2
    /\ Len(google_events) = 1
    /\ \E k \in AllKeys :
          /\ Cardinality(regular_at(teams_events, k)) = 1
          /\ Cardinality(cancels_at(teams_events, k)) = 1
          /\ Cardinality(fetched_at(google_events, k)) = 1

\* C5: in that case the run issues exactly one call, the delete of the one
\* target event, and the summary is created=0, deleted=0, canceled_removed=1,
\* cancel_no_match=0.
C5_EndToEnd ==
    (C5_Case /\ pc = "done")
    => /\ Len(calls) = 1
       /\ calls[1].op = "delete"
       /\ calls[1].id = google_events[1].id
       /\ created_count = 0
       /\ deleted_count = 0
       /\ canceled_deleted_count = 1
       /\ missing_cancel_matches = 0

C5_Witness == C5_Case /\ pc = "done"

\* C6: no create call is issued for a key that a cancellation event of the
\* feed names, whatever the calendar holds and whether or not the feed also
\* lists a regular event with that key.
C6_NoCreateForCancelledKey ==
    \A n \in 1..Len(calls) :
        calls[n].op = "create" => cancels_at(teams_events, calls[n].key) = {}

\* C7: for every key k with s regular source events and t fetched target
\* events that no cancellation names, a run that fetched both lists issues
\* exactly max(0, s - t) create calls and max(0, t - s) delete calls for k.
C7_DuplicateReconciliation ==
    RunEnded =>
        \A k \in AllKeys :
            cancels_at(teams_events, k) = {} =>
                LET s == Cardinality(regular_at(teams_events, k))
                    t == Cardinality(fetched_at(google_events, k))
                IN  /\ Cardinality(calls_at("create", k)) = Max0(s - t)
                    /\ Cardinality(calls_at("delete", k)) = Max0(t - s)

\* C8: once step 4 is over, for each cancellation event whose named key is in
\* the target index, step 4 has issued on its behalf a delete call for every
\* fetched target event with that key.
C8_CancelDeletesWholeBucket ==
    CancelStepOver =>
        \A c \in 1..Len(cancelado_events) :
            \A n \in fetched_at(google_events, named_key(cancelado_events[c])) :
                \E m \in 1..Len(calls) :
                    /\ calls[m].op = "delete"
                    /\ calls[m].step = "cancel"
                    /\ calls[m].src = c
                    /\ calls[m].id = google_events[n].id

\* Step 4 is over and a cancellation matched a bucket of two target events.
C8_Witness ==
    /\ CancelStepOver
    /\ \E c \in 1..Len(cancelado_events) :
          Cardinality(fetched_at(google_events, named_key(cancelado_events[c]))) = 2

matched_cancels ==
    { c \in 1..Len(cancelado_events) :
        fetched_at(google_events, named_key(cancelado_events[c])) # {} }

RECURSIVE bucket_sum(_)
bucket_sum(c) ==
    IF c = 0 THEN 0
    ELSE bucket_sum(c - 1)
         + Cardinality(fetched_at(google_events, named_key(cancelado_events[c])))

\* C9 as claimed: the canceled_removed count of the summary is the number of
\* cancellation events whose named key was found in the target index.
C9_CountsMatchedCancellations ==
    pc = "done" => canceled_deleted_count = Cardinality(matched_cancels)

\* C9 amended: the canceled_removed count of the summary is the number of
\* delete calls step 4 issued: each matched cancellation event adds the size
\* of the bucket it matched.
C9_CountsCancelDeletes ==
    pc = "done" =>
        /\ canceled_deleted_count = bucket_sum(Len(cancelado_events))
        /\ canceled_deleted_count =
              Cardinality({ m \in 1..Len(calls) : calls[m].step = "cancel" })

\* A run ended in which one cancellation matched a bucket of two events.
C9_Witness ==
    /\ pc = "done"
    /\ Cardinality(matched_cancels) = 1
    /\ canceled_deleted_count = 2

\* C10: a cancellation event whose named key is absent from the target index
\* issues no delete call, adds exactly 1 to the unmatched counter, and the
\* run goes on to the next cancellation event without raising.
C10_NoMatchCancellation ==
    [][(/\ pc = "cancel"
        /\ i <= Len(cancelado_events)
        /\ fetched_at(google_events, named_key(cancelado_events[i])) = {})
       => (/\ calls' = calls
           /\ store' = store
           /\ missing_cancel_matches' = missing_cancel_matches + 1
           /\ canceled_deleted_count' = canceled_deleted_count
           /\ i' = i + 1
           /\ pc' = "cancel")]_vars

\* A run that counted an unmatched cancellation and went on to its summary.
C10_Witness ==
    /\ pc = "done"
    /\ missing_cancel_matches > 0
    /\ Cardinality(matched_cancels) < Len(cancelado_events)

\* C11: no source event whose title starts with the cancellation marker is
\* ever put into the index of source events or handed to a create call.
C11_CancellationsNeverCreated ==
    /\ \A n \in 1..Len(teams_dict) : \A m \in 1..Len(teams_dict[n].evs) :
          ~is_marked(teams_dict[n].evs[m])
    /\ \A c \in 1..Len(calls) :
          calls[c].op = "create" => ~is_marked(calls[c])

\* A run over a feed with a cancellation event got to its summary and made a
\* create call on the way.
C11_Witness ==
    /\ pc = "done"
    /\ \E n \in 1..Len(teams_events) : is_marked(teams_events[n])
    /\ \E c \in 1..Len(calls) : calls[c].op = "create"

\* C12: if one of the three settings is missing or empty, main() is aborted
\* before any fetch and makes no create and no delete call.
C12_MissingConfigAborts ==
    (\E key \in DOMAIN required_configs : required_configs[key] \in {"None", ""})
        => /\ pc = "aborted"
           /\ fetches = <<>>
           /\ calls = <<>>

\* A run was aborted over a setting that is set to the empty text.
C12_Witness ==
    /\ pc = "aborted"
    /\ \E key \in DOMAIN required_configs : required_configs[key] = ""
    /\ \A key \in DOMAIN required_configs : required_configs[key] # "None"

\* C13: a fetch that failed aborts the run with no create and no delete call
\* and is never taken for a fetch of zero events; a fetch that succeeded,
\* with zero events too, does not abort the run.
C13_FailedFetchAborts ==
    /\ \A f \in 1..Len(fetches) :
          ~fetches[f].ok => /\ pc = "aborted"
                            /\ calls = <<>>
                            /\ f = Len(fetches)
    /\ (pc = "aborted" /\ calls = <<>> /\ fetches # <<>>)
          => ~fetches[Len(fetches)].ok

\* The fetch of the source gave zero events and the run went on to the fetch
\* of the target, which failed and aborted the run.
C13_Witness ==
    /\ pc = "aborted"
    /\ Len(fetches) = 2
    /\ fetches[1].ok /\ fetches[1].count = 0
    /\ ~fetches[2].ok

\* C14: a run ends with the summary or is aborted without having changed the
\* calendar; no run is aborted after a create or delete that succeeded.
C14_NoAbortAfterMutation ==
    pc = "aborted" => \A c \in 1..Len(calls) : ~calls[c].ret

\* C15: a create or delete that fails does not abort the run: the remaining
\* operations are still attempted.
C15_FailureDoesNotAbort ==
    \A c \in 1..Len(calls) : ~calls[c].ret => pc # "aborted"

step_rank(step) == IF step = "cancel" THEN 1 ELSE IF step = "create" THEN 2 ELSE 3

\* C18: in a run every delete for a cancellation comes before the first
\* create, and every create comes before the first delete of an orphan.
C18_StepOrder ==
    /\ \A a, b \in 1..Len(calls) :
          a < b => step_rank(calls[a].step) <= step_rank(calls[b].step)
    /\ \A c \in 1..Len(calls) :
          (calls[c].op = "create") <=> (calls[c].step = "create")

\* A run deleted for a cancellation and then created an event.
C18_Witness ==
    /\ pc = "done"
    /\ \E a, b \in 1..Len(calls) :
          /\ a < b
          /\ calls[a].step = "cancel" /\ calls[a].ret
          /\ calls[b].step = "create" /\ calls[b].ret

\* What C19 says of every state of _retry: the wrapped function is called at
\* most max_attempts times, _retry returns the result of the first call that succeeds without calling
\* again, and raises the error of the last call when the attempts are used up.
retry_bounded ==
    /\ Len(invocations) <= max_attempts
    /\ result.status = "running"
          => /\ Len(invocations) < max_attempts
             /\ \A n \in 1..Len(invocations) : invocations[n].kind # "return"
    /\ result.status \in {"returned", "raised"}
          => /\ result.of = Len(invocations)
             /\ result.value = invocations[Len(invocations)]
             /\ \A n \in 1..(Len(invocations) - 1) : invocations[n].kind # "return"
    /\ result.status = "returned" => result.value.kind = "return"
    /\ result.status = "raised" => result.value.kind # "return"

\* C19, with termination: the above holds throughout and _retry comes to
\* return or raise.
C19_RetryTerminates == []retry_bounded /\ <>(result.status # "running")

\* Three transient errors were retried and the fourth call failed too: the
\* error of the fourth call was raised.
C19_Witness ==
    /\ result.status = "raised"
    /\ Len(invocations) = max_attempts
    /\ result.value.status \in TransientStatuses

\* C20: a delete of an id the calendar reports as absent (HTTP 404) returns
\* True, so a repeated delete of the same id is not reported as a failure; a
\* delete with a missing id returns False and does not call the calendar.
C20_IdempotentDelete ==
    probe.fn = "remover_evento_google_by_id" =>
        /\ (probe.event_id # 0 /\ probe.outcome = "ok"
                /\ ~store_has(probe.before, probe.event_id))
              => probe.ret /\ probe.called /\ probe.store = probe.before
        /\ (probe.repeated /\ probe.outcome = "ok") => probe.ret
        /\ probe.event_id = 0
              => ~probe.ret /\ ~probe.called /\ probe.store = probe.before

\* An id that an earlier call deleted was deleted again and the calendar
\* answered HTTP 404.
C20_Witness ==
    /\ probe.fn = "remover_evento_google_by_id"
    /\ probe.repeated
    /\ probe.outcome = "ok"
    /\ probe.ret

\* C16: two events with the same title whose start and end are the same
\* instants written with different UTC offsets get the same key.
C16_SameInstantSameKey ==
    probe.fn = "offsets" => probe.key_a = probe.key_b

\* C17: normalize_event gives one event of one origin the same key whatever
\* the system timezone of the host it runs on.
C17_KeyIndependentOfHost ==
    probe.fn = "hosts" => probe.key_a = probe.key_b

\* C21: a key with as many events in the source index as in the target index,
\* which no cancellation event names, gets no operation in the run: no create
\* and no delete call is issued for it.
C21_BalancedKeyUntouched ==
    \A k \in AllKeys :
        (/\ pc \notin {"start", "fetch_teams", "fetch_google"}
         /\ cancels_at(teams_events, k) = {}
         /\ Cardinality(regular_at(teams_events, k))
              = Cardinality(fetched_at(google_events, k)))
        => /\ calls_at("create", k) = {}
           /\ calls_at("delete", k) = {}

\* A run that made calls for other keys has ended, and the calendar held an
\* event whose key the feed lists as often and does not cancel.
C21_Witness ==
    /\ pc = "done"
    /\ calls # <<>>
    /\ \E k \in AllKeys :
          /\ cancels_at(teams_events, k) = {}
          /\ fetched_at(google_events, k) # {}
          /\ Cardinality(regular_at(teams_events, k))
               = Cardinality(fetched_at(google_events, k))

\* Ids of the orphan deletes issued for the n-th bucket of the target index,
\* in the order of the calls.
orphan_ids(n) ==
    LET cs == SelectSeq(calls, LAMBDA c : c.step = "orphan" /\ c.src = n)
    IN  [m \in 1..Len(cs) |-> cs[m].id]

\* C28: for a key with t target events and s < t source events the orphan
\* step deletes the first t - s events of the target bucket, in the order of
\* the bucket, and leaves the last s; it reads no index outside the bucket.
C28_OrphansFromFront ==
    pc = "done" =>
        \A n \in 1..Len(google_dict) :
            LET bucket == google_dict[n].evs
                t == Len(bucket)
                s == Len(dict_get(teams_dict, google_dict[n].key))
            IN  /\ Len(orphan_ids(n)) = Max0(t - s)
                /\ Len(orphan_ids(n)) <= t
                /\ \A m \in 1..Len(orphan_ids(n)) : orphan_ids(n)[m] = bucket[m].id

\* A bucket of two target events faced one source event: one was deleted and
\* one was left.
C28_Witness ==
    /\ pc = "done"
    /\ \E n \in 1..Len(google_dict) :
          /\ Len(google_dict[n].evs) = 2
          /\ Len(dict_get(teams_dict, google_dict[n].key)) = 1
          /\ Len(orphan_ids(n)) = 1

\* C24: when steps 5 and 6 run, the target index holds no event that step 4
\* deleted: a bucket whose events a cancellation deleted has size 0.
C24_IndexDropsCancelled ==
    pc \in {"create", "orphan"} =>
        \A c \in 1..Len(calls) :
            (calls[c].step = "cancel" /\ calls[c].ret)
            => dict_get(google_dict, calls[c].key) = <<>>

\* C29: in the summary created is the number of create calls that succeeded
\* and deleted + canceled_removed is the number of delete calls that returned
\* True.
C29_CountsSucceededCalls ==
    pc = "done" =>
        /\ created_count
             = Cardinality({c \in 1..Len(calls) : calls[c].op = "create" /\ calls[c].ret})
        /\ deleted_count + canceled_deleted_count
             = Cardinality({c \in 1..Len(calls) : calls[c].op = "delete" /\ calls[c].ret})

\* C27: _retry calls again only after a transient failure (HTTP 429, 500,
\* 502, 503 or 504); any other failure is raised by the call it came from.
C27_RetriesOnlyTransient ==
    \A n \in 1..(Len(invocations) - 1) :
        /\ invocations[n].kind = "HttpError"
        /\ invocations[n].status \in {429, 500, 502, 503, 504}

\* C26: for a cancellation event titled marker + rest the original title is
\* rest, trimmed, with every occurrence of the marker text inside rest kept,
\* and the key has the start and end of the cancellation event itself.
C26_OnlyLeadingMarkerRemoved ==
    probe.fn = "cancel_key" =>
        probe.key = <<strip(probe.rest), probe.cancel_ev.start, probe.cancel_ev.end>>

\* Number of events in the buckets of an index.
RECURSIVE index_size(_)
index_size(d) == IF d = <<>> THEN 0 ELSE Len(Head(d).evs) + index_size(Tail(d))

unmarked(evs) == { n \in 1..Len(evs) : ~is_marked(evs[n]) }

\* C25: for the source and for the target, the bucket lengths of the index
\* add up to the number of fetched events of that origin whose title does
\* not start with the marker; equal events are not collapsed.
C25_IndexHoldsUnmarkedEvents ==
    probe.fn = "index" =>
        /\ index_size(probe.teams_dict) = Cardinality(unmarked(probe.teams_events))
        /\ index_size(probe.google_dict) = Cardinality(unmarked(probe.google_events))

\* C22: get_calendar_service returns a service or raises; it never returns
\* without a service.
C22_ServiceOrRaise ==
    probe.fn = "get_calendar_service" =>
        \/ probe.svc.kind = "raised"
        \/ probe.svc.kind = "returned" /\ probe.svc.error = "service"

\* C23: get_google_events returns only events of the window [start, end] of
\* the source fetch: a target event that starts after the end of the window
\* is neither indexed nor deleted as an orphan.
C23_TargetFetchClipped ==
    probe.fn = "window" =>
        \A n \in 1..Len(probe.store) :
            probe.store[n].start + TIMEZONE > probe.period.end
            => /\ probe.store[n].id \notin probe.indexed
               /\ probe.store[n].id \notin probe.deleted

====
